---- MODULE Spec2Model ----
(***************************************************************************)
(* Contraction-hierarchies engine of backend/cpp_native/ch_core.cpp:       *)
(* the graph store (CHGraph), witness search, node contraction, the        *)
(* builder, the bidirectional upward query, the unpacker and the           *)
(* get_graph_data / add_ch_edge / set_rank reload path.                     *)
(*                                                                         *)
(* Weights are doubles in the source.  The model uses small non-negative   *)
(* integers, on which double addition and comparison are exact.            *)
(***************************************************************************)
EXTENDS Integers, Sequences, FiniteSets, TLC

(***************************************************************************)
(* Bounds of the model.                                                    *)
(***************************************************************************)
\* node count, edge count and heaviest weight of the engines of Spec
MaxNodes == 3
MaxEdges == 3
MaxWeight == 1
\* node and edge count of the engines of SpecBuild and SpecPath
WideNodes == 4
WideEdges == 4
\* edge count of the engines of SpecWitness
WitnessEdges == 2
\* node and edge count of the engines of SpecStore and SpecQ
SmallNodes == 3
SmallEdges == 2
\* parallel edges into and out of the hub of the engines of SpecCap
FanIn == 11
FanOut == 10

(***************************************************************************)
(* Program constants.                                                      *)
(***************************************************************************)
NoVia == -1
NoRank == -1
NoParent == -1
NoMeet == -1
\* std::numeric_limits<double>::infinity(): larger than every finite sum the
\* model can form; the source never adds to it.
Infinity == 1000000000
complexity_limit == 500
max_shortcuts == 100
hop_limit_full == 3
hop_limit_reduced == 1
scale == 1000

(***************************************************************************)
(* Graph store.                                                            *)
(***************************************************************************)
Edge(t, w, s, via) ==
  [target |-> t, weight |-> w, is_shortcut |-> s, via_node |-> via]

NodesOf(n) == 0 .. (n - 1)

InRange(n, u) == u >= 0 /\ u < n

\* CHGraph(int n)
CHGraph(n) ==
  [num_nodes  |-> n,
   adj_out    |-> [x \in NodesOf(n) |-> <<>>],
   adj_in     |-> [x \in NodesOf(n) |-> <<>>],
   contracted |-> [x \in NodesOf(n) |-> FALSE],
   rank       |-> [x \in NodesOf(n) |-> NoRank],
   node_order |-> <<>>]

\* adj_out[u].push_back(e)
push_out(adj, u, e) == [adj EXCEPT ![u] = Append(@, e)]

\* an insertion that loses its in-entry
push_in_lost(adj, v, e) == adj

\* adj_in[v].push_back(e)
push_in(adj, v, e) == [adj EXCEPT ![v] = Append(@, e)]

\* add_edge(u, v, weight), both indices in range
add_edge(G, u, v, weight) ==
  [G EXCEPT !.adj_out = push_out(@, u, Edge(v, weight, FALSE, NoVia)),
            !.adj_in  = push_in(@, v, Edge(u, weight, FALSE, NoVia))]

\* add_ch_edge(u, v, weight, is_shortcut, via), both indices in range
add_ch_edge(G, u, v, weight, is_shortcut, via) ==
  [G EXCEPT !.adj_out = push_out(@, u, Edge(v, weight, is_shortcut, via)),
            !.adj_in  = push_in(@, v, Edge(u, weight, is_shortcut, via))]

\* set_rank(u, r): a silent no-op when u is out of range
set_rank(G, u, r) ==
  IF u >= 0 /\ u < G.num_nodes THEN [G EXCEPT !.rank[u] = r] ELSE G

(***************************************************************************)
(* std::priority_queue<..., std::greater<>>: a multiset of tuples, popped   *)
(* smallest first in lexicographic order.  Kept as a sequence.             *)
(***************************************************************************)
LexLess(a, b) ==
  \E k \in 1 .. Len(a) : a[k] < b[k] /\ \A j \in 1 .. (k - 1) : a[j] = b[j]

TopIdx(pq) ==
  CHOOSE i \in 1 .. Len(pq) : \A j \in 1 .. Len(pq) : ~LexLess(pq[j], pq[i])

RemoveAt(s, i) == SubSeq(s, 1, i - 1) \o SubSeq(s, i + 1, Len(s))

(***************************************************************************)
(* Witness search.                                                         *)
(***************************************************************************)
\* line 52: a direct edge u -> v no heavier than max_dist
direct_hit(e, v, max_dist) == e.target = v /\ e.weight <= max_dist

\* a search that relaxes edges into contracted nodes
skip_edge_exclude_only(G, e, v, exclude_node) == e.target = exclude_node

\* lines 65-66: the edges the search may not relax
skip_edge(G, e, v, exclude_node) ==
  (G.contracted[e.target] /\ e.target # v) \/ e.target = exclude_node

\* a search that pushes only distances strictly below the bound
within_strict(new_dist, max_dist) == new_dist < max_dist

\* line 68: the bound on a pushed distance
within(new_dist, max_dist) == new_dist <= max_dist

RECURSIVE witness_loop(_, _, _, _, _, _)
witness_loop(G, pq, v, max_dist, exclude_node, hop_limit) ==
  IF pq = <<>> THEN FALSE
  ELSE
    LET i    == TopIdx(pq)
        d    == pq[i][1]
        curr == pq[i][2]
        h    == pq[i][3]
        rest == RemoveAt(pq, i)
        open == SelectSeq(G.adj_out[curr],
                  LAMBDA e : ~skip_edge(G, e, v, exclude_node)
                             /\ within(d + e.weight, max_dist))
        pushed == [k \in 1 .. Len(open) |->
                     <<d + open[k].weight, open[k].target, h + 1>>]
    IN  IF d > max_dist THEN FALSE
        ELSE IF curr = v THEN TRUE
        ELSE IF h >= hop_limit
          THEN witness_loop(G, rest, v, max_dist, exclude_node, hop_limit)
          ELSE witness_loop(G, rest \o pushed, v, max_dist, exclude_node,
                            hop_limit)

witness_search(G, u, v, max_dist, exclude_node, hop_limit) ==
  IF \E k \in 1 .. Len(G.adj_out[u]) : direct_hit(G.adj_out[u][k], v, max_dist)
    THEN TRUE
    ELSE witness_loop(G, << <<0, u, 0>> >>, v, max_dist, exclude_node,
                      hop_limit)

(***************************************************************************)
(* Contraction.  A contraction state is [G, added, returned, log]: the     *)
(* graph, the shortcuts_added counter, whether contract_node has returned  *)
(* early, and a history of the witness searches made (the arguments, the   *)
(* answer, and the adjacency and contraction flags the search read).  The  *)
(* history is not program state.                                           *)
(***************************************************************************)
LogEntry(G, node, u, w, total, hop, found) ==
  [node |-> node, u |-> u, w |-> w, max_dist |-> total, hop_limit |-> hop,
   found |-> found, adj_out |-> G.adj_out, contracted |-> G.contracted]

\* lines 103-107
insert_shortcut(G, u, w, total, node) ==
  [G EXCEPT !.adj_out = push_out(@, u, Edge(w, total, TRUE, node)),
            !.adj_in  = push_in(@, w, Edge(u, total, TRUE, node))]

\* lines 87-107: the body of the two loops for in_edge and out_edge.  A
\* return (line 92) sets S.returned, after which no pair is looked at.
contract_pair(S, node, in_edge, out_edge, hop) ==
  LET u == in_edge.target
      w == out_edge.target
  IN  IF S.returned \/ u = w THEN S
      ELSE IF S.added >= max_shortcuts THEN [S EXCEPT !.returned = TRUE]
      ELSE
        LET d_uv   == in_edge.weight
            d_vw   == out_edge.weight
            total  == d_uv + d_vw
            found  == witness_search(S.G, u, w, total, node, hop)
            needed == ~found
        IN  [G        |-> IF needed
                            THEN insert_shortcut(S.G, u, w, total, node)
                            ELSE S.G,
             added    |-> IF needed THEN S.added + 1 ELSE S.added,
             returned |-> FALSE,
             log      |-> Append(S.log,
                            LogEntry(S.G, node, u, w, total, hop, found))]

\* lines 86-109: the candidate pairs lo .. hi in loop order (in_neighbors
\* outer, out_neighbors inner), pair p being in_neighbors[(p-1) \div m + 1]
\* with out_neighbors[(p-1) % m + 1], m = Len(outs).  The range is halved
\* so that the evaluation nests only logarithmically deep.
RECURSIVE contract_pairs(_, _, _, _, _, _, _)
contract_pairs(S, node, ins, outs, lo, hi, hop) ==
  IF lo > hi THEN S
  ELSE IF lo = hi
    THEN contract_pair(S, node, ins[((lo - 1) \div Len(outs)) + 1],
                       outs[((lo - 1) % Len(outs)) + 1], hop)
    ELSE LET mid  == (lo + hi) \div 2
             left == contract_pairs(S, node, ins, outs, lo, mid, hop)
         IN  IF left.returned THEN left
             ELSE contract_pairs(left, node, ins, outs, mid + 1, hi, hop)

\* contract_node(node); log0 is the history so far
contract_node(G, node, log0) ==
  LET G1   == [G EXCEPT !.contracted[node] = TRUE]
      ins  == SelectSeq(G1.adj_in[node], LAMBDA e : ~G1.contracted[e.target])
      outs == SelectSeq(G1.adj_out[node], LAMBDA e : ~G1.contracted[e.target])
      skip_witness == Len(ins) * Len(outs) > complexity_limit
      hop  == IF skip_witness THEN hop_limit_reduced ELSE hop_limit_full
  IN  contract_pairs([G |-> G1, added |-> 0, returned |-> FALSE, log |-> log0],
                     node, ins, outs, 1, Len(ins) * Len(outs), hop)

\* build_ch(order): rank[node] = r++, then contract_node(node)
RECURSIVE build_loop(_, _, _)
build_loop(S, order, k) ==
  IF k > Len(order) THEN S
  ELSE
    LET node == order[k]
        G1   == [S.G EXCEPT !.rank[node] = k - 1]
    IN  build_loop(contract_node(G1, node, S.log), order, k + 1)

build_ch(G, order) ==
  build_loop([G |-> [G EXCEPT !.node_order = order], added |-> 0,
              returned |-> FALSE, log |-> <<>>], order, 1)

(***************************************************************************)
(* Serialisation and reload.                                               *)
(***************************************************************************)
\* get_graph_data()["edges"]: u ascending, each adj_out[u] in stored order
RECURSIVE emit_edges(_, _)
emit_edges(G, u) ==
  IF u >= G.num_nodes THEN <<>>
  ELSE [k \in 1 .. Len(G.adj_out[u]) |->
          <<u, G.adj_out[u][k].target, G.adj_out[u][k].weight,
            G.adj_out[u][k].is_shortcut, G.adj_out[u][k].via_node>>]
       \o emit_edges(G, u + 1)

\* a serialiser that leaves the ranks out
get_graph_data_unranked(G) ==
  [edges |-> emit_edges(G, 0), ranks |-> [x \in NodesOf(G.num_nodes) |-> NoRank]]

get_graph_data(G) == [edges |-> emit_edges(G, 0), ranks |-> G.rank]

\* the host's reload: a fresh engine, every emitted edge through add_ch_edge
\* in emitted order, every emitted rank through set_rank
RECURSIVE load_edges(_, _, _)
load_edges(H, edges, k) ==
  IF k > Len(edges) THEN H
  ELSE load_edges(add_ch_edge(H, edges[k][1], edges[k][2], edges[k][3],
                              edges[k][4], edges[k][5]), edges, k + 1)

RECURSIVE load_ranks(_, _, _)
load_ranks(H, ranks, u) ==
  IF u >= H.num_nodes THEN H
  ELSE load_ranks(set_rank(H, u, ranks[u]), ranks, u + 1)

reload(n, data) ==
  load_ranks(load_edges(CHGraph(n), data.edges, 1), data.ranks, 0)

(***************************************************************************)
(* Query.  A query state q holds the locals of CHGraph::query (d, u the    *)
(* popped pair, j the position in the edge loop) and the pending calls of  *)
(* unpack (stack, innermost first); pc is the place in the body:           *)
(*   "search"     the test of the while loop of line 175                   *)
(*   "fwd_pop"    lines 176-178, "fwd_edge" the for loop of lines 179-192  *)
(*   "bwd_pop"    lines 195-197, "bwd_edge" the for loop of lines 198-211  *)
(*   "trace_up"   the parent walk of lines 222-227                         *)
(*   "unpack_up"  the for loop of lines 232-236                            *)
(*   "trace_down" the walk of lines 239-244                                *)
(*   "done"       returned; "ub" an out-of-bounds vector access            *)
(***************************************************************************)
\* the double mu / 1000.0, kept as an exact fraction
Div1000(mu) == [num |-> mu, den |-> scale]

\* the literal 0.0
Zero == [num |-> 0, den |-> 1]

SameReal(a, b) == a.num * b.den = b.num * a.den

EmptyResult == [path |-> <<>>, distance |-> Zero]

\* line 180 / line 199
upward(G, u, t) == G.rank[t] > G.rank[u]

QInit(G, origin, dest) ==
  LET bad == origin < 0 \/ origin >= G.num_nodes
             \/ dest < 0 \/ dest >= G.num_nodes
      N   == NodesOf(G.num_nodes)
  IN  [pc         |-> IF bad THEN "done" ELSE "search",
       origin     |-> origin,
       dest       |-> dest,
       fwd_pq     |-> IF bad THEN <<>> ELSE << <<0, origin>> >>,
       bwd_pq     |-> IF bad THEN <<>> ELSE << <<0, dest>> >>,
       fwd_dist   |-> [x \in N |-> IF x = origin THEN 0 ELSE Infinity],
       bwd_dist   |-> [x \in N |-> IF x = dest THEN 0 ELSE Infinity],
       fwd_parent |-> [x \in N |-> NoParent],
       bwd_parent |-> [x \in N |-> NoParent],
       mu         |-> Infinity,
       meet_node  |-> NoMeet,
       d          |-> 0,
       u          |-> 0,
       j          |-> 0,
       up_path    |-> <<>>,
       path       |-> <<>>,
       curr       |-> NoMeet,
       i          |-> 0,
       stack      |-> <<>>,
       result     |-> EmptyResult]

\* lines 180-191: the body of the loop over adj_out[u], for edge e
fwd_relax_edge(G, q, e, d, u) ==
  LET new_dist == d + e.weight
  IN  IF upward(G, u, e.target) /\ new_dist < q.fwd_dist[e.target]
        THEN
          LET q1 == [q EXCEPT !.fwd_dist[e.target] = new_dist,
                              !.fwd_parent[e.target] = u,
                              !.fwd_pq = Append(@, <<new_dist, e.target>>)]
              total == new_dist + q.bwd_dist[e.target]
          IN  IF q.bwd_dist[e.target] # Infinity /\ total < q.mu
                THEN [q1 EXCEPT !.mu = total, !.meet_node = e.target]
                ELSE q1
        ELSE q

\* lines 199-210: the body of the loop over adj_in[u], for edge e
bwd_relax_edge(G, q, e, d, u) ==
  LET new_dist == d + e.weight
  IN  IF upward(G, u, e.target) /\ new_dist < q.bwd_dist[e.target]
        THEN
          LET q1 == [q EXCEPT !.bwd_dist[e.target] = new_dist,
                              !.bwd_parent[e.target] = u,
                              !.bwd_pq = Append(@, <<new_dist, e.target>>)]
              total == new_dist + q.fwd_dist[e.target]
          IN  IF q.fwd_dist[e.target] # Infinity /\ total < q.mu
                THEN [q1 EXCEPT !.mu = total, !.meet_node = e.target]
                ELSE q1
        ELSE q

\* lines 176-178: pop the forward queue; the edges of u are looked at when
\* d <= mu
fwd_pop(q) ==
  IF q.fwd_pq = <<>> THEN [q EXCEPT !.pc = "bwd_pop"]
  ELSE
    LET i == TopIdx(q.fwd_pq)
    IN  [q EXCEPT !.fwd_pq = RemoveAt(@, i),
                  !.d = q.fwd_pq[i][1],
                  !.u = q.fwd_pq[i][2],
                  !.j = 1,
                  !.pc = IF q.fwd_pq[i][1] <= q.mu THEN "fwd_edge"
                         ELSE "bwd_pop"]

\* line 179: the next edge of adj_out[u], in stored order
fwd_edge(G, q) ==
  IF q.j > Len(G.adj_out[q.u]) THEN [q EXCEPT !.pc = "bwd_pop"]
  ELSE [fwd_relax_edge(G, q, G.adj_out[q.u][q.j], q.d, q.u) EXCEPT !.j = q.j + 1]

\* lines 195-197: pop the backward queue
bwd_pop(q) ==
  IF q.bwd_pq = <<>> THEN [q EXCEPT !.pc = "search"]
  ELSE
    LET i == TopIdx(q.bwd_pq)
    IN  [q EXCEPT !.bwd_pq = RemoveAt(@, i),
                  !.d = q.bwd_pq[i][1],
                  !.u = q.bwd_pq[i][2],
                  !.j = 1,
                  !.pc = IF q.bwd_pq[i][1] <= q.mu THEN "bwd_edge"
                         ELSE "search"]

\* line 198: the next edge of adj_in[u], in stored order
bwd_edge(G, q) ==
  IF q.j > Len(G.adj_in[q.u]) THEN [q EXCEPT !.pc = "search"]
  ELSE [bwd_relax_edge(G, q, G.adj_in[q.u][q.j], q.d, q.u) EXCEPT !.j = q.j + 1]

\* lines 141-150: the first edge u -> v that is a shortcut with a via node
first_shortcut(es, v) ==
  LET hits == {k \in 1 .. Len(es) :
                 es[k].target = v /\ es[k].is_shortcut
                 /\ es[k].via_node # NoVia}
  IN  IF hits = {} THEN 0 ELSE CHOOSE k \in hits : \A j \in hits : k <= j

\* the two calls unpack(u, via) and unpack(via, v), in call order
unpack_calls(u, via, v) == << <<u, via>>, <<via, v>> >>

\* one call of unpack(u, v, path): the innermost pending call
unpack_step(G, q) ==
  LET u    == q.stack[1][1]
      v    == q.stack[1][2]
      rest == Tail(q.stack)
  IN  IF ~InRange(G.num_nodes, u) THEN [q EXCEPT !.pc = "ub"]
      ELSE
        LET k == first_shortcut(G.adj_out[u], v)
        IN  IF k # 0
              THEN [q EXCEPT !.stack =
                      unpack_calls(u, G.adj_out[u][k].via_node, v) \o rest]
              ELSE [q EXCEPT !.stack = rest, !.path = Append(@, v)]

\* a parent walk that reads the other search's parents
walk_up_bwd(q) == q.bwd_parent[q.curr]

\* line 226: curr = p
walk_up(q) == q.fwd_parent[q.curr]

\* a query that does not test for a missing meet node
not_found_unchecked(q) == FALSE

\* line 216: no meet node was recorded
not_found(q) == q.meet_node = NoMeet

\* one step of query
QStep(G, q) ==
  CASE q.pc = "search" ->
         IF q.fwd_pq # <<>> \/ q.bwd_pq # <<>> THEN [q EXCEPT !.pc = "fwd_pop"]
         ELSE IF not_found(q)
           THEN [q EXCEPT !.pc = "done", !.result = EmptyResult]
           ELSE [q EXCEPT !.pc = "trace_up", !.curr = q.meet_node]
    [] q.pc = "fwd_pop" -> fwd_pop(q)
    [] q.pc = "fwd_edge" -> fwd_edge(G, q)
    [] q.pc = "bwd_pop" -> bwd_pop(q)
    [] q.pc = "bwd_edge" -> bwd_edge(G, q)
    [] q.pc = "trace_up" ->
         IF q.curr # q.origin
           THEN IF ~InRange(G.num_nodes, q.curr) THEN [q EXCEPT !.pc = "ub"]
                ELSE [q EXCEPT !.up_path = Append(@, q.curr),
                               !.curr = walk_up(q)]
           ELSE [q EXCEPT !.pc = "unpack_up", !.path = <<q.origin>>,
                          !.curr = q.origin, !.i = Len(q.up_path)]
    [] q.pc = "unpack_up" ->
         IF q.stack # <<>> THEN unpack_step(G, q)
         ELSE IF q.i >= 1
           THEN [q EXCEPT !.stack = << <<q.curr, q.up_path[q.i]>> >>,
                          !.curr = q.up_path[q.i], !.i = q.i - 1]
           ELSE [q EXCEPT !.pc = "trace_down", !.curr = q.meet_node]
    [] q.pc = "trace_down" ->
         IF q.stack # <<>> THEN unpack_step(G, q)
         ELSE IF q.curr # q.dest
           THEN IF ~InRange(G.num_nodes, q.curr) THEN [q EXCEPT !.pc = "ub"]
                ELSE [q EXCEPT !.stack = << <<q.curr, q.bwd_parent[q.curr]>> >>,
                               !.curr = q.bwd_parent[q.curr]]
           ELSE [q EXCEPT !.pc = "done",
                          !.result = [path |-> q.path,
                                      distance |-> Div1000(q.mu)]]
    [] OTHER -> q

\* up to n steps of query, stopping when it has returned (n is halved so
\* that the evaluation nests only logarithmically deep)
RECURSIVE steps(_, _, _)
steps(G, q0, n) ==
  IF n = 0 \/ q0.pc \in {"done", "ub"} THEN q0
  ELSE IF n = 1 THEN QStep(G, q0)
  ELSE LET half == steps(G, q0, n \div 2)
       IN  IF half.pc \in {"done", "ub"} THEN half
           ELSE steps(G, half, n - (n \div 2))

\* query run to its return, 64 steps at a time
RECURSIVE run_query(_, _)
run_query(G, q0) ==
  LET r == steps(G, q0, 64)
  IN  IF r.pc \in {"done", "ub"} THEN r ELSE run_query(G, r)

\* query(origin, dest), the whole call
query(G, origin, dest) == run_query(G, QInit(G, origin, dest))

(***************************************************************************)
(* State.                                                                  *)
(*   g      the engine (a CHGraph object)                                  *)
(*   h      the engine the host reloaded from get_graph_data, or NoEngine  *)
(*   phase  "load" before build_ch, "built" after, "crashed" once an       *)
(*          out-of-bounds access has ended the process                     *)
(*   log    history of the witness searches of build_ch                    *)
(*   ret    the last call's outcome, until the host has taken it           *)
(*   q      the locals of a query in progress (SpecQ), or Idle             *)
(*   ub     whether an out-of-bounds vector access has happened            *)
(***************************************************************************)
VARIABLES g, h, phase, log, ret, q, ub
vars == <<g, h, phase, log, ret, q, ub>>

NoEngine == CHGraph(0)
NoCall == [op |-> "none"]
Idle == [pc |-> "idle"]

Weights == 0 .. MaxWeight

RECURSIVE EdgeCountFrom(_, _)
EdgeCountFrom(G, u) ==
  IF u >= G.num_nodes THEN 0
  ELSE Len(G.adj_out[u]) + EdgeCountFrom(G, u + 1)

EdgeCount(G) == EdgeCountFrom(G, 0)

\* orderings that list every node exactly once
Perms(n) ==
  {f \in [1 .. n -> NodesOf(n)] : \A i, j \in 1 .. n : f[i] = f[j] => i = j}

\* orderings in which each node appears at most once
RECURSIVE PartialOrders(_, _)
PartialOrders(n, k) ==
  IF k = 0 THEN {<<>>}
  ELSE PartialOrders(n, k - 1) \cup
       {f \in [1 .. k -> NodesOf(n)] : \A i, j \in 1 .. k : f[i] = f[j] => i = j}

\* the two orderings by node index
Ascending(n) == [i \in 1 .. n |-> i - 1]
Descending(n) == [i \in 1 .. n |-> n - i]
IndexOrders(n) == {Ascending(n), Descending(n)}

\* the two orderings by node index and their prefixes
PrefixOrders(n) ==
  {SubSeq(o, 1, k) : o \in IndexOrders(n), k \in 0 .. n}

InitWith(n) ==
  /\ g = CHGraph(n)
  /\ h = NoEngine
  /\ phase = "load"
  /\ log = <<>>
  /\ ret = NoCall
  /\ q = Idle
  /\ ub = FALSE

\* the host calls add_edge(u, v, w) with in-range indices
AddEdgeUpTo(max, loops) ==
  /\ phase = "load"
  /\ EdgeCount(g) < max
  /\ \E u, v \in NodesOf(g.num_nodes), w \in Weights :
       /\ loops \/ u # v
       /\ g' = add_edge(g, u, v, w)
  /\ UNCHANGED <<h, phase, log, ret, q, ub>>

\* the host calls build_ch(order), once
BuildWith(orders, history) ==
  /\ phase = "load"
  /\ \E order \in orders :
       LET B == build_ch(g, order)
       IN  /\ g' = B.G
           /\ log' = IF history THEN B.log ELSE <<>>
  /\ phase' = "built"
  /\ UNCHANGED <<h, ret, q, ub>>

\* what a finished query hands back; after an out-of-bounds access the call
\* may end the process or hand back whatever it had assembled
Outcomes(r) ==
  IF r.pc = "done"
    THEN {[kind |-> "return", path |-> r.result.path,
           distance |-> r.result.distance]}
    ELSE {[kind |-> "crash"],
          [kind |-> "return", path |-> r.path, distance |-> Div1000(r.mu)]}

NoOutcome == [kind |-> "none"]

\* the host calls query(s, t) for a pair of args on the engine, and on the
\* reloaded engine when there is one
QueryIn(args) ==
  /\ phase = "built"
  /\ ret = NoCall
  /\ \E <<s, t>> \in args :
       \E o1 \in Outcomes(query(g, s, t)) :
         \E o2 \in IF h = NoEngine THEN {NoOutcome}
                   ELSE Outcomes(query(h, s, t)) :
           ret' = [op |-> "query", origin |-> s, dest |-> t,
                   out |-> o1, reloaded |-> o2]
  /\ UNCHANGED <<g, h, phase, log, q, ub>>

\* the host takes the outcome of the last call
Return ==
  /\ ret # NoCall
  /\ phase # "crashed"
  /\ ret' = NoCall
  /\ UNCHANGED <<g, h, phase, log, q, ub>>

\* the host serialises the engine and loads the data into a fresh engine
Reload ==
  /\ phase = "built"
  /\ ret = NoCall
  /\ h = NoEngine
  /\ h' = reload(g.num_nodes, get_graph_data(g))
  /\ UNCHANGED <<g, phase, log, ret, q, ub>>

(***************************************************************************)
(* Spec: the life of an engine of up to MaxNodes nodes: base edges, one    *)
(* build over a full ordering, then queries and a reload.                  *)
(***************************************************************************)
Init == \E n \in 1 .. MaxNodes : InitWith(n)
AddEdge == AddEdgeUpTo(MaxEdges, TRUE)
Build == BuildWith(Perms(g.num_nodes), FALSE)
Query == QueryIn((-1 .. g.num_nodes) \X (-1 .. g.num_nodes))
Next == AddEdge \/ Build \/ Reload \/ Query \/ Return
Spec == Init /\ [][Next]_vars

(***************************************************************************)
(* SpecBuild: base edges and one build on an engine of WideNodes nodes,    *)
(* keeping the history of the witness searches.                            *)
(* Self-loops are left out: contract_node skips every pair with u = w and  *)
(* the query relaxes only edges into a strictly higher rank.               *)
(***************************************************************************)
InitWide == InitWith(WideNodes)
AddEdgeWide == AddEdgeUpTo(WideEdges, FALSE)
BuildWide == BuildWith(IndexOrders(g.num_nodes), TRUE)
NextBuild == AddEdgeWide \/ BuildWide
SpecBuild == InitWide /\ [][NextBuild]_vars

\* SpecWitness: up to WitnessEdges base edges, then a build over an ordering
\* by node index or a prefix of one, which leaves the engine as build_ch has
\* it between two contractions.
AddEdgeWitness == AddEdgeUpTo(WitnessEdges, FALSE)
BuildPrefix == BuildWith(PrefixOrders(g.num_nodes), TRUE)
NextWitness == AddEdgeWitness \/ BuildPrefix
SpecWitness == InitWide /\ [][NextWitness]_vars

\* SpecPath: a simple directed graph (no self-loop, no second edge u -> v),
\* built in ascending node order, then queries between distinct nodes.
AddSimpleEdge ==
  /\ phase = "load"
  /\ EdgeCount(g) < WideEdges
  /\ \E u, v \in NodesOf(g.num_nodes), w \in Weights :
       /\ u # v
       /\ \A k \in 1 .. Len(g.adj_out[u]) : g.adj_out[u][k].target # v
       /\ g' = add_edge(g, u, v, w)
  /\ UNCHANGED <<h, phase, log, ret, q, ub>>

BuildPath == BuildWith({Ascending(g.num_nodes)}, FALSE)
QueryPath ==
  QueryIn({st \in NodesOf(g.num_nodes) \X NodesOf(g.num_nodes) : st[1] # st[2]})
NextPath == AddSimpleEdge \/ BuildPath \/ QueryPath \/ Return
SpecPath == InitWide /\ [][NextPath]_vars

(***************************************************************************)
(* SpecCap: the host loads a fan: parallel edges 1 -> 0 of weights         *)
(* (FanOut+1)*FanIn, ..., (FanOut+1)*1 and parallel edges 0 -> 2 of        *)
(* weights FanOut, ..., 1, so that every candidate pair of the hub 0 is    *)
(* lighter than all pairs before it.                                       *)
(***************************************************************************)
\* three nodes: the hub 0, the source 1 and the sink 2
InitCap == InitWith(3)

AddFanEdge ==
  /\ phase = "load"
  /\ LET a == Len(g.adj_in[0])
         b == Len(g.adj_out[0])
     IN  \/ a < FanIn /\ g' = add_edge(g, 1, 0, (FanOut + 1) * (FanIn - a))
         \/ b < FanOut /\ g' = add_edge(g, 0, 2, FanOut - b)
  /\ UNCHANGED <<h, phase, log, ret, q, ub>>

BuildCap == BuildWith(Perms(g.num_nodes), FALSE)
QueryCap == QueryIn(NodesOf(g.num_nodes) \X NodesOf(g.num_nodes))
NextCap == AddFanEdge \/ BuildCap \/ QueryCap \/ Return
SpecCap == InitCap /\ [][NextCap]_vars

(***************************************************************************)
(* SpecStore: the mutators of the graph store called with any index, in    *)
(* range or one off either end, then a build.  adj_out[u] and adj_in[v]    *)
(* are unchecked std::vector accesses: out of range they are undefined     *)
(* behaviour, after which the call may end the process, return having      *)
(* done only its in-range push_back, or return having overwritten memory   *)
(* of the engine (here: one rank).  A run is followed up to the return of  *)
(* the call that had undefined behaviour.                                  *)
(***************************************************************************)
InitStore == InitWith(SmallNodes)

AnyIndex(n) == -1 .. n

\* the push_backs of add_edge / add_ch_edge whose index is in range
pushes_in_range(G, u, v, weight, is_shortcut, via) ==
  [G EXCEPT
     !.adj_out = IF InRange(G.num_nodes, u)
                   THEN push_out(@, u, Edge(v, weight, is_shortcut, via))
                   ELSE @,
     !.adj_in  = IF InRange(G.num_nodes, v)
                   THEN push_in(@, v, Edge(u, weight, is_shortcut, via))
                   ELSE @]

\* the engine states an out-of-bounds push_back can leave behind when the
\* call returns
AfterOutOfBounds(G, u, v, weight, is_shortcut, via) ==
  LET P == pushes_in_range(G, u, v, weight, is_shortcut, via)
  IN  {P} \cup {[P EXCEPT !.rank[x] = 0] : x \in NodesOf(G.num_nodes)}

\* a call of add_edge or add_ch_edge, recorded in ret
StoreEdgeCall(op, u, v, weight, is_shortcut, via) ==
  IF InRange(g.num_nodes, u) /\ InRange(g.num_nodes, v)
    THEN /\ g' = add_ch_edge(g, u, v, weight, is_shortcut, via)
         /\ ret' = [op |-> op, u |-> u, v |-> v, outcome |-> "ok"]
         /\ UNCHANGED <<phase, ub>>
    ELSE /\ ub' = TRUE
         /\ \/ /\ phase' = "crashed"
               /\ g' = IF InRange(g.num_nodes, u)
                         THEN pushes_in_range(g, u, v, weight, is_shortcut, via)
                         ELSE g
               /\ ret' = [op |-> op, u |-> u, v |-> v, outcome |-> "crash"]
            \/ /\ g' \in AfterOutOfBounds(g, u, v, weight, is_shortcut, via)
               /\ ret' = [op |-> op, u |-> u, v |-> v, outcome |-> "ok"]
               /\ UNCHANGED phase

StoreAddEdge ==
  /\ phase = "load"
  /\ ~ub
  /\ ret = NoCall
  /\ EdgeCount(g) < SmallEdges
  /\ \E u, v \in AnyIndex(g.num_nodes), w \in Weights :
       /\ StoreEdgeCall("add_edge", u, v, w, FALSE, NoVia)
  /\ UNCHANGED <<h, log, q>>

StoreAddChEdge ==
  /\ phase = "load"
  /\ ~ub
  /\ ret = NoCall
  /\ EdgeCount(g) < SmallEdges
  /\ \E u, v \in AnyIndex(g.num_nodes), w \in Weights, s \in BOOLEAN,
        via \in {NoVia, 0} :
       StoreEdgeCall("add_ch_edge", u, v, w, s, via)
  /\ UNCHANGED <<h, log, q>>

StoreSetRank ==
  /\ phase = "load"
  /\ ~ub
  /\ ret = NoCall
  /\ \E u \in AnyIndex(g.num_nodes) :
       /\ g' = set_rank(g, u, 0)
       /\ ret' = [op |-> "set_rank", u |-> u, v |-> u, outcome |-> "ok"]
  /\ UNCHANGED <<h, phase, log, q, ub>>

StoreBuild ==
  /\ ~ub
  /\ ret = NoCall
  /\ BuildWith(Perms(g.num_nodes), FALSE)

NextStore ==
  StoreAddEdge \/ StoreAddChEdge \/ StoreSetRank \/ StoreBuild \/ Return
SpecStore == InitStore /\ [][NextStore]_vars

(***************************************************************************)
(* SpecQ: query taken one step of its control flow at a time, on engines   *)
(* of SmallNodes nodes built over any ordering without repetition.  Once   *)
(* called, query runs on its own thread of control until it returns:       *)
(* weak fairness of QueryStep.                                             *)
(***************************************************************************)
AddEdgeQ == AddEdgeUpTo(SmallEdges, TRUE)
BuildQ == BuildWith(PartialOrders(g.num_nodes, g.num_nodes), FALSE)

QueryCall ==
  /\ phase = "built"
  /\ q = Idle
  /\ \E s, t \in NodesOf(g.num_nodes) : q' = QInit(g, s, t)
  /\ UNCHANGED <<g, h, phase, log, ret, ub>>

QueryStep ==
  /\ q # Idle
  /\ q.pc \notin {"done", "ub"}
  /\ q' = QStep(g, q)
  /\ UNCHANGED <<g, h, phase, log, ret, ub>>

QueryReturn ==
  /\ q # Idle
  /\ q.pc = "done"
  /\ q' = Idle
  /\ UNCHANGED <<g, h, phase, log, ret, ub>>

NextQ == AddEdgeQ \/ BuildQ \/ QueryCall \/ QueryStep \/ QueryReturn
SpecQ == InitStore /\ [][NextQ]_vars /\ WF_vars(QueryStep)

(***************************************************************************)
(* Reference definitions, independent of the engine: the lightest edge     *)
(* between two nodes, the weight of a node sequence, and the shortest      *)
(* distance over the base (non-shortcut) edges by enumeration of the       *)
(* simple paths.                                                           *)
(***************************************************************************)
Min(S) == CHOOSE x \in S : \A y \in S : x <= y

BaseOnly(adj) == [x \in DOMAIN adj |-> SelectSeq(adj[x], LAMBDA e : ~e.is_shortcut)]

EdgeWeights(adj, a, b) ==
  {adj[a][k].weight : k \in {j \in 1 .. Len(adj[a]) : adj[a][j].target = b}}

MinEdge(adj, a, b) ==
  IF EdgeWeights(adj, a, b) = {} THEN Infinity ELSE Min(EdgeWeights(adj, a, b))

\* addition in which Infinity absorbs
Plus(a, b) == IF a >= Infinity \/ b >= Infinity THEN Infinity ELSE a + b

RECURSIVE PathWeight(_, _, _)
PathWeight(adj, p, i) ==
  IF i >= Len(p) THEN 0
  ELSE Plus(MinEdge(adj, p[i], p[i + 1]), PathWeight(adj, p, i + 1))

SimplePaths(n, s, t) ==
  UNION {{p \in [1 .. k -> NodesOf(n)] :
            /\ p[1] = s
            /\ p[k] = t
            /\ \A i, j \in 1 .. k : p[i] = p[j] => i = j} : k \in 1 .. n}

RefDist(G, s, t) ==
  LET ws == {PathWeight(BaseOnly(G.adj_out), p, 1) :
               p \in SimplePaths(G.num_nodes, s, t)}
  IN  IF ws = {} THEN Infinity ELSE Min(ws)

Reachable(G, s, t) == RefDist(G, s, t) < Infinity

\* the sums of base-edge weights along p, one base edge chosen per hop
RECURSIVE PathSums(_, _, _)
PathSums(adj, p, i) ==
  IF i >= Len(p) THEN {0}
  ELSE {w + r : w \in EdgeWeights(adj, p[i], p[i + 1]),
                r \in PathSums(adj, p, i + 1)}

IsQuery == ret # NoCall /\ ret.op = "query"

Returned(o) == o.kind = "return"

(***************************************************************************)
(* C1 (checked under SpecCap).  After add_edge with non-negative weights   *)
(* and build_ch over an ordering that lists every node once, query(s, t)   *)
(* for in-range s, t with t reachable from s returns the shortest base-    *)
(* graph distance divided by 1000.                                         *)
(***************************************************************************)
Optimality ==
  (IsQuery /\ InRange(g.num_nodes, ret.origin) /\ InRange(g.num_nodes, ret.dest)
     /\ Reachable(g, ret.origin, ret.dest))
  => /\ Returned(ret.out)
     /\ SameReal(ret.out.distance, Div1000(RefDist(g, ret.origin, ret.dest)))

(***************************************************************************)
(* C2 (checked under SpecPath).  Every consecutive pair of a returned      *)
(* non-empty path is joined by a base edge, and the base-edge weights      *)
(* along the path sum to the returned distance times 1000.                 *)
(***************************************************************************)
UnpackingSound ==
  (IsQuery /\ Returned(ret.out) /\ ret.out.path # <<>>)
  => LET base == BaseOnly(g.adj_out)
         p    == ret.out.path
     IN  /\ \A i \in 1 .. (Len(p) - 1) : EdgeWeights(base, p[i], p[i + 1]) # {}
         /\ \E sum \in PathSums(base, p, 1) :
              SameReal(ret.out.distance, Div1000(sum))

(***************************************************************************)
(* C3 (checked under Spec).  query(s, s) for an in-range s returns the     *)
(* path [s] with distance 0.0.                                             *)
(***************************************************************************)
SelfQuery ==
  (IsQuery /\ ret.origin = ret.dest /\ InRange(g.num_nodes, ret.origin))
  => /\ Returned(ret.out)
     /\ ret.out.path = <<ret.origin>>
     /\ SameReal(ret.out.distance, Zero)

(***************************************************************************)
(* C4 (checked under Spec).  query(s, t) returns the empty path with       *)
(* distance 0.0 when s or t is outside [0, N), and when both are in range  *)
(* and the base graph has no directed path from s to t.                    *)
(***************************************************************************)
EmptyWhenInvalidOrUnreachable ==
  (IsQuery /\ (~InRange(g.num_nodes, ret.origin)
               \/ ~InRange(g.num_nodes, ret.dest)
               \/ ~Reachable(g, ret.origin, ret.dest)))
  => /\ Returned(ret.out)
     /\ ret.out.path = <<>>
     /\ ret.out.distance = Zero

\* a query between two in-range nodes with a path one way and none back has
\* returned
UnreachableAnswered ==
  /\ IsQuery
  /\ InRange(g.num_nodes, ret.origin) /\ InRange(g.num_nodes, ret.dest)
  /\ ~Reachable(g, ret.origin, ret.dest)
  /\ Reachable(g, ret.dest, ret.origin)
  /\ Returned(ret.out)

(***************************************************************************)
(* C6 as stated (checked under Spec).  The engine reloaded from            *)
(* get_graph_data through add_ch_edge and set_rank answers every query     *)
(* with the same path and the same distance as the original.               *)
(***************************************************************************)
ReloadSamePath ==
  (IsQuery /\ ret.reloaded # NoOutcome)
  => /\ Returned(ret.out) /\ Returned(ret.reloaded)
     /\ ret.reloaded.path = ret.out.path
     /\ SameReal(ret.reloaded.distance, ret.out.distance)

(***************************************************************************)
(* C6 as amended (checked under Spec).  The reloaded engine answers every  *)
(* query with the same distance as the original, and with an empty path    *)
(* exactly when the original does.                                         *)
(***************************************************************************)
ReloadSameDistance ==
  (IsQuery /\ ret.reloaded # NoOutcome)
  => /\ Returned(ret.out) /\ Returned(ret.reloaded)
     /\ (ret.reloaded.path = <<>>) <=> (ret.out.path = <<>>)
     /\ SameReal(ret.reloaded.distance, ret.out.distance)

\* both engines have answered a query whose path crosses an unpacked shortcut
ReloadedAnswered ==
  /\ IsQuery
  /\ ret.reloaded # NoOutcome
  /\ Returned(ret.reloaded)
  /\ Len(ret.reloaded.path) >= 3
  /\ ret.reloaded.distance.num > 0

(***************************************************************************)
(* C5 (checked under SpecStore).  add_edge, add_ch_edge and set_rank       *)
(* called with a node index outside [0, N) fail with InvalidIndex and      *)
(* leave the adjacency lists, ranks and contraction flags unchanged.       *)
(***************************************************************************)
Mutators == {"add_edge", "add_ch_edge", "set_rank"}

InvalidIndexRejected ==
  [][(/\ ret = NoCall
      /\ ret' # NoCall
      /\ ret'.op \in Mutators
      /\ (~InRange(g.num_nodes, ret'.u) \/ ~InRange(g.num_nodes, ret'.v)))
     => (/\ ret'.outcome = "InvalidIndex"
         /\ g'.adj_out = g.adj_out
         /\ g'.adj_in = g.adj_in
         /\ g'.rank = g.rank
         /\ g'.contracted = g.contracted)]_vars

(***************************************************************************)
(* C7 (checked under SpecStore).  After any sequence of add_edge,          *)
(* add_ch_edge and build_ch with in-range indices, the multiset of         *)
(* (u, v, weight, is_shortcut, via) entries of adj_out equals the multiset *)
(* of entries of adj_in, where adj_in[v] stores u as target.               *)
(***************************************************************************)
OutCount(G, u, v, e) ==
  Cardinality({k \in 1 .. Len(G.adj_out[u]) :
                 G.adj_out[u][k] = Edge(v, e.weight, e.is_shortcut, e.via_node)})

InCount(G, u, v, e) ==
  Cardinality({k \in 1 .. Len(G.adj_in[v]) :
                 G.adj_in[v][k] = Edge(u, e.weight, e.is_shortcut, e.via_node)})

AdjacencySymmetric ==
  (ub = FALSE)
  => /\ \A u \in NodesOf(g.num_nodes) : \A k \in 1 .. Len(g.adj_out[u]) :
          LET e == g.adj_out[u][k]
          IN  OutCount(g, u, e.target, e) = InCount(g, u, e.target, e)
     /\ \A v \in NodesOf(g.num_nodes) : \A k \in 1 .. Len(g.adj_in[v]) :
          LET e == g.adj_in[v][k]
          IN  OutCount(g, e.target, v, e) = InCount(g, e.target, v, e)

\* build_ch has inserted a shortcut: the engine holds more edges than the
\* host loaded
ShortcutInserted ==
  /\ ub = FALSE
  /\ phase = "built"
  /\ EdgeCount(g) > SmallEdges

(***************************************************************************)
(* Reference for the witness search: a node sequence from u to w of at     *)
(* most hop edges and weight at most L whose intermediate nodes all lie    *)
(* in the set open.                                                        *)
(***************************************************************************)
PathWithin(adj, open, u, w, L, hop) ==
  \E k \in 1 .. hop :
    \E p \in [1 .. (k + 1) -> DOMAIN adj] :
      /\ p[1] = u
      /\ p[k + 1] = w
      /\ \A i \in 2 .. k : p[i] \in open
      /\ PathWeight(adj, p, 1) <= L

\* the nodes other than exclude
Avoiding(n, exclude) == NodesOf(n) \ {exclude}

\* the uncontracted nodes other than exclude
OpenNodes(contracted, exclude) ==
  {x \in DOMAIN contracted : ~contracted[x] /\ x # exclude}

\* the arguments the searches are compared on
Budgets == 0 .. (2 * MaxWeight)
HopLimits == 1 .. hop_limit_full

(***************************************************************************)
(* C9 as stated (checked under SpecWitness).  witness_search(u, w, L,      *)
(* exclude, hop_limit) returns true iff the current graph has a path from  *)
(* u to w of weight at most L and at most hop_limit hops that does not     *)
(* traverse exclude: for every search made by build_ch, and for every      *)
(* u # w, exclude outside {u, w}, L and hop_limit on the engine as it is.  *)
(***************************************************************************)
WitnessIffPathAvoidingExclude ==
  /\ \A i \in 1 .. Len(log) :
       log[i].found <=>
         PathWithin(log[i].adj_out, Avoiding(g.num_nodes, log[i].node),
                    log[i].u, log[i].w, log[i].max_dist, log[i].hop_limit)
  /\ \A u, w, x \in NodesOf(g.num_nodes), L \in Budgets, hop \in HopLimits :
       (u # w /\ x # u /\ x # w)
       => (witness_search(g, u, w, L, x, hop) <=>
             PathWithin(g.adj_out, Avoiding(g.num_nodes, x), u, w, L, hop))

(***************************************************************************)
(* C9 as amended (checked under SpecWitness).  witness_search returns true *)
(* iff the current graph has a path from u to w of weight at most L and    *)
(* at most hop_limit hops whose intermediate nodes are all uncontracted    *)
(* and differ from exclude.                                                *)
(***************************************************************************)
WitnessIffOpenPath ==
  /\ \A i \in 1 .. Len(log) :
       log[i].found <=>
         PathWithin(log[i].adj_out, OpenNodes(log[i].contracted, log[i].node),
                    log[i].u, log[i].w, log[i].max_dist, log[i].hop_limit)
  /\ \A u, w, x \in NodesOf(g.num_nodes), L \in Budgets, hop \in HopLimits :
       (u # w /\ x # u /\ x # w)
       => (witness_search(g, u, w, L, x, hop) <=>
             PathWithin(g.adj_out, OpenNodes(g.contracted, x), u, w, L, hop))

\* a search on the engine is refused although a path through a contracted
\* node is within the bounds
ContractedNodeOnPath ==
  \E u, w, x \in NodesOf(g.num_nodes), L \in Budgets, hop \in HopLimits :
    /\ u # w /\ x # u /\ x # w
    /\ ~witness_search(g, u, w, L, x, hop)
    /\ PathWithin(g.adj_out, Avoiding(g.num_nodes, x), u, w, L, hop)

(***************************************************************************)
(* The candidate pairs of build_ch, read from the history: entry i is the  *)
(* pair (u, w) of node, looked at on the adjacency log[i].adj_out; the     *)
(* adjacency after the pair is the one the next entry saw, or the final    *)
(* one.                                                                    *)
(***************************************************************************)
AdjacencyAfter(i) == IF i < Len(log) THEN log[i + 1].adj_out ELSE g.adj_out

ShortcutAdded(i) ==
  AdjacencyAfter(i) =
    push_out(log[i].adj_out, log[i].u,
             Edge(log[i].w, log[i].max_dist, TRUE, log[i].node))

NothingAdded(i) == AdjacencyAfter(i) = log[i].adj_out

\* the lightest path from u to w within the hop limit through nodes of open
\* weighs exactly the pair's total
EqualWeightAlternate(i, open, hop) ==
  /\ PathWithin(log[i].adj_out, open, log[i].u, log[i].w, log[i].max_dist, hop)
  /\ ~PathWithin(log[i].adj_out, open, log[i].u, log[i].w,
                 log[i].max_dist - 1, hop)

(***************************************************************************)
(* C8 as stated (checked under SpecBuild).  When contract_node looks at a  *)
(* pair (u, w), u # w, of node v and the lightest alternate path from u    *)
(* to w avoiding v weighs exactly w(u,v) + w(v,w), the shortcut            *)
(* (u -> w, w(u,v) + w(v,w), via v) is still inserted.                     *)
(***************************************************************************)
EqualWeightKeepsShortcut ==
  \A i \in 1 .. Len(log) :
    EqualWeightAlternate(i, Avoiding(g.num_nodes, log[i].node), g.num_nodes)
    => ShortcutAdded(i)

(***************************************************************************)
(* C8 as amended (checked under SpecBuild).  When the lightest alternate   *)
(* path from u to w of at most hop_limit edges through uncontracted nodes  *)
(* other than v weighs exactly w(u,v) + w(v,w), the witness search finds   *)
(* it and no shortcut is inserted for the pair.                            *)
(***************************************************************************)
EqualWeightSuppressesShortcut ==
  \A i \in 1 .. Len(log) :
    EqualWeightAlternate(i, OpenNodes(log[i].contracted, log[i].node),
                         log[i].hop_limit)
    => log[i].found /\ NothingAdded(i)

\* a pair whose only alternate path is a two-edge path of equal weight has
\* been looked at
EqualWeightDetour ==
  \E i \in 1 .. Len(log) :
    /\ EqualWeightAlternate(i, OpenNodes(log[i].contracted, log[i].node),
                            log[i].hop_limit)
    /\ ~PathWithin(log[i].adj_out, {}, log[i].u, log[i].w, log[i].max_dist, 1)
    /\ log[i].max_dist > 0

(***************************************************************************)
(* C10 (checked under SpecQ).  After add_edge with non-negative weights    *)
(* and build_ch over an ordering without repetition, every query(s, t)     *)
(* with in-range endpoints returns: the search loop empties both queues,   *)
(* the parent walks reach s and t, and every unpack call ends.             *)
(***************************************************************************)
QueryTerminates == (q.pc # "idle") ~> (q.pc = "done")

\* a query has returned a path it unpacked from a shortcut
UnpackedAndReturned ==
  /\ q.pc = "done"
  /\ Len(q.result.path) >= 3
  /\ \E k \in 1 .. Len(g.adj_out[q.origin]) :
       /\ g.adj_out[q.origin][k].is_shortcut
       /\ g.adj_out[q.origin][k].target = q.dest
====
